---- MODULE Spec2Model ----
(***************************************************************************)
(* Ornament realization in music21/expressions.py: the realize rules of    *)
(* the ornament classes, the realizeOrnaments driver, the numberOfMarks     *)
(* setter of Tremolo and TremoloSpanner and the placement of the spanners;  *)
(* measureNumberComesBefore of musicxml/helpers.py; the octaveChange and    *)
(* lowestLine of the pitch clefs of clef.py.                                *)
(*                                                                          *)
(* Quarter lengths are counted in ticks, QLUnit ticks to the quarter note,  *)
(* so that every duration the code computes (halves, 2^-numberOfMarks) is   *)
(* an exact integer.  A note is a record; obj tells the caller's object     *)
(* ("input") from the objects copy.deepcopy makes ("copy").                 *)
(***************************************************************************)
EXTENDS Integers, Sequences, FiniteSets, TLC

\* ------------------------------------------------------------------ bounds
MaxExprs == 2
MaxDurSteps == 10
MarkMargin == 2
MaxNumLen == 3
MaxOctaveChange == 2

\* ------------------------------------------------------- program constants
MaxMarks == 8
LoopBusterStart == 100

QLUnit == 2 ^ MaxMarks
\* 0.125 and 0.25 quarter lengths, the defaults the constructors set
QL32nd == QLUnit \div 8
QL16th == QLUnit \div 4
DurStep == QL32nd
Durations == {k * DurStep : k \in 0..MaxDurSteps}

\* ------------------------------------------------------------------ pitches
\* steps C D E F G A B are 0..6; acc is the alter in semitones (0: no
\* accidental); oct is the octave number.
StepPC == <<0, 2, 4, 5, 7, 9, 11>>
StepsPerOctave == Len(StepPC)
SemitonesPerOctave == StepPC[StepsPerOctave] + 1

Pitch(step, acc, oct) == [step |-> step, acc |-> acc, oct |-> oct]
PitchSpace(p) == SemitonesPerOctave * p.oct + StepPC[p.step + 1] + p.acc
DiatonicNoteNum(p) == StepsPerOctave * p.oct + p.step
NameWithOctave(p) == <<p.step, p.acc, p.oct>>

\* intervals: GenericInterval(2) moves one staff step and keeps the accidental;
\* Interval('m2'), Interval('M2') move one staff step and 1 or 2 semitones.
\* kind "none" is size = None, kind "empty" is size = ''.
Interval(kind, dir, semis) == [kind |-> kind, dir |-> dir, semis |-> semis]
GenericSecond == Interval("generic", 1, 0)
MinorSecond == Interval("chromatic", 1, 1)
MajorSecond == Interval("chromatic", 1, 2)
NoSize == Interval("none", 0, 0)
EmptySize == Interval("empty", 0, 0)
HasReverse(iv) == iv.kind \in {"generic", "chromatic"}
Reverse(iv) == [iv EXCEPT !.dir = 0 - iv.dir]

TransposePitch(p, iv) ==
    LET num == DiatonicNoteNum(p) + iv.dir
        step2 == num % StepsPerOctave
        oct2 == num \div StepsPerOctave
        bare == Pitch(step2, 0, oct2)
    IN IF iv.kind = "generic"
       THEN Pitch(step2, p.acc, oct2)
       ELSE Pitch(step2, PitchSpace(p) + iv.dir * iv.semis - PitchSpace(bare), oct2)

\* key signatures: the number of sharps (negative: flats)
SharpOrder == <<3, 0, 4, 1, 5, 2, 6>>
FlatOrder == <<6, 2, 5, 1, 4, 0, 3>>
AccidentalByStep(ks, step) ==
    IF \E i \in 1..Len(SharpOrder) : i <= ks /\ SharpOrder[i] = step THEN 1
    ELSE IF \E i \in 1..Len(FlatOrder) : i <= 0 - ks /\ FlatOrder[i] = step THEN 0 - 1
    ELSE 0

\* ------------------------------------------------------------ Python values
\* Python values a client may assign: int, float (num / den), str (a tuple of
\* characters) and None
IntValue(n) == [type |-> "int", num |-> n, den |-> 1, text |-> <<>>]
FloatValue(num, den) == [type |-> "float", num |-> num, den |-> den, text |-> <<>>]
StrValue(text) == [type |-> "str", num |-> 0, den |-> 1, text |-> text]
NoneValue == [type |-> "NoneType", num |-> 0, den |-> 1, text |-> <<>>]

\* -------------------------------------------------------------- expressions
\* An expression object: its class, and the attributes the realize rules
\* read.  obj is "orig" for the object the client attached and "copy" for a
\* deep copy of it.
Expr(cls, direction, size, quarterLength, marks) ==
    [cls |-> cls, obj |-> "orig", direction |-> direction, size |-> size,
     quarterLength |-> quarterLength, nachschlag |-> FALSE,
     setAccidentalFromKeySig |-> TRUE, numberOfMarks |-> marks]

Fermata == Expr("Fermata", "", NoSize, 0, 0)
Schleifer == Expr("Schleifer", "", GenericSecond, QL16th, 0)
GeneralMordent == Expr("GeneralMordent", "", GenericSecond, QL32nd, 0)
Mordent == [GeneralMordent EXCEPT !.cls = "Mordent", !.direction = "down"]
HalfStepMordent == [Mordent EXCEPT !.cls = "HalfStepMordent", !.size = MinorSecond]
WholeStepMordent == [Mordent EXCEPT !.cls = "WholeStepMordent", !.size = MajorSecond]
InvertedMordent == [GeneralMordent EXCEPT !.cls = "InvertedMordent", !.direction = "up"]
WholeStepInvertedMordent ==
    [InvertedMordent EXCEPT !.cls = "WholeStepInvertedMordent", !.size = MajorSecond]
Trill == Expr("Trill", "", GenericSecond, QL32nd, 0)
HalfStepTrill ==
    [Trill EXCEPT !.cls = "HalfStepTrill", !.size = MinorSecond,
                  !.setAccidentalFromKeySig = FALSE]
\* a whole-step trill that inherits the key-signature correction of Trill
WholeStepTrillKeyed == [Trill EXCEPT !.cls = "WholeStepTrill", !.size = MajorSecond]

WholeStepTrill ==
    [Trill EXCEPT !.cls = "WholeStepTrill", !.size = MajorSecond,
                  !.setAccidentalFromKeySig = FALSE]
Shake == [Trill EXCEPT !.cls = "Shake", !.quarterLength = QL16th]
Turn == Expr("Turn", "", GenericSecond, QL16th, 0)
InvertedTurn == [Turn EXCEPT !.cls = "InvertedTurn", !.size = Reverse(GenericSecond)]
GeneralAppoggiatura == Expr("GeneralAppoggiatura", "", MajorSecond, 0, 0)
Appoggiatura == [GeneralAppoggiatura EXCEPT !.cls = "Appoggiatura", !.direction = "down"]
InvertedAppoggiatura ==
    [GeneralAppoggiatura EXCEPT !.cls = "InvertedAppoggiatura", !.direction = "up"]
HalfStepInvertedAppoggiatura ==
    [InvertedAppoggiatura EXCEPT !.cls = "HalfStepInvertedAppoggiatura",
                                 !.size = MinorSecond]
Tremolo == Expr("Tremolo", "", NoSize, 0, 3)

\* the two spanners: neither has a realize; placement starts at None, the
\* _numberOfMarks of a TremoloSpanner at 3
TrillExtension == [cls |-> "TrillExtension", obj |-> "orig", placement |-> NoneValue]
TremoloSpanner ==
    [cls |-> "TremoloSpanner", obj |-> "orig", placement |-> NoneValue,
     numberOfMarks |-> 3]

\* attribute assignments a client makes after construction
WithNachschlag(e) == [e EXCEPT !.nachschlag = TRUE]
WithSize(e, size) == [e EXCEPT !.size = size]
WithMarks(e, n) == [e EXCEPT !.numberOfMarks = n]

MordentClasses ==
    {"GeneralMordent", "Mordent", "HalfStepMordent", "WholeStepMordent",
     "InvertedMordent", "WholeStepInvertedMordent"}
TrillClasses == {"Trill", "HalfStepTrill", "WholeStepTrill", "Shake"}
TurnClasses == {"Turn", "InvertedTurn"}
AppoggiaturaClasses ==
    {"GeneralAppoggiatura", "Appoggiatura", "InvertedAppoggiatura",
     "HalfStepInvertedAppoggiatura"}

\* hasattr(thisExpression, 'realize'): every Ornament has it, a Fermata has not
HasRealize(e) == e.cls # "Fermata"

\* -------------------------------------------------------------------- notes
Note(pitch, ql, expressions) ==
    [obj |-> "input", pitched |-> TRUE, hasExpressions |-> TRUE,
     pitch |-> pitch, ql |-> ql, expressions |-> expressions]

DeepCopy(n) ==
    [n EXCEPT !.obj = "copy",
              !.expressions = [i \in DOMAIN n.expressions |->
                                  [n.expressions[i] EXCEPT !.obj = "copy"]]]

\* the object test Python's "in" and list.remove make on expressions
IsSameObject(a, b) == a.obj = "orig" /\ b.obj = "orig" /\ a = b

Transposed(n, iv) == [n EXCEPT !.pitch = TransposePitch(n.pitch, iv)]
WithKeyAccidental(n, ks) == [n EXCEPT !.pitch.acc = AccidentalByStep(ks, n.pitch.step)]

\* what a realize call gives: the exception it raised ("none": it returned),
\* the three elements of the tuple it returned (remainder is <<>> for None
\* and <<note>> otherwise), and src, the source object as the call left it.
Raised(err, src) ==
    [err |-> err, before |-> <<>>, remainder |-> <<>>, after |-> <<>>, src |-> src]
Returned(before, remainder, after, src) ==
    [err |-> "none", before |-> before, remainder |-> remainder, after |-> after,
     src |-> src]

\* ------------------------------------------------------------ realize rules
\* Ornament.realize: the source object itself is handed back as the main note
OrnamentRealize(self, srcObj) == Returned(<<>>, <<srcObj>>, <<>>, srcObj)

\* fillListOfRealizedNotes with the first deepcopy forgotten: the source
\* object itself is re-timed and appended
FillListAliasing(self, srcObj, fillObjects, transposeInterval) ==
    IF ~srcObj.pitched
    THEN [err |-> "TypeError", fill |-> fillObjects, src |-> srcObj]
    ELSE LET firstNote == [srcObj EXCEPT !.ql = self.quarterLength]
             secondNote == Transposed(DeepCopy(firstNote), transposeInterval)
         IN [err |-> "none",
             fill |-> fillObjects \o <<firstNote, secondNote>>,
             src |-> firstNote]

\* Ornament.fillListOfRealizedNotes: two deep copies of the source are
\* appended, both of the ornament's quarterLength, the second transposed.
FillListOfRealizedNotes(self, srcObj, fillObjects, transposeInterval) ==
    IF ~srcObj.pitched
    THEN [err |-> "TypeError", fill |-> fillObjects, src |-> srcObj]
    ELSE LET firstNote == [DeepCopy(srcObj) EXCEPT !.ql = self.quarterLength]
             secondNote ==
                 Transposed([DeepCopy(srcObj) EXCEPT !.ql = self.quarterLength],
                            transposeInterval)
         IN [err |-> "none",
             fill |-> fillObjects \o <<firstNote, secondNote>>,
             src |-> srcObj]

\* the two directions exchanged
MordentIntervalSwapped(self) ==
    IF self.direction = "down" THEN self.size ELSE Reverse(self.size)

\* the interval of a mordent's second note
MordentTransposeInterval(self) ==
    IF self.direction = "down" THEN Reverse(self.size) ELSE self.size

\* time taken for one grace note only
MordentRemainderOneNote(self, srcObj) == srcObj.ql - self.quarterLength

\* "remainderDuration = srcObj.duration.quarterLength - (2 * self.quarterLength)"
MordentRemainderDuration(self, srcObj) == srcObj.ql - (2 * self.quarterLength)

\* the four tests with the two duration tests put first
MordentPreconditionDurationFirst(self, srcObj) ==
    IF srcObj.ql = 0 THEN "ZeroDuration"
    ELSE IF srcObj.ql < self.quarterLength * 2 THEN "InsufficientDuration"
    ELSE IF self.direction \notin {"up", "down"} THEN "MissingDirection"
    ELSE IF self.size.kind = "empty" THEN "MissingSize"
    ELSE "none"

\* the four tests GeneralMordent.realize begins with, in their order
MordentPrecondition(self, srcObj) ==
    IF self.direction \notin {"up", "down"} THEN "MissingDirection"
    ELSE IF self.size.kind = "empty" THEN "MissingSize"
    ELSE IF srcObj.ql = 0 THEN "ZeroDuration"
    ELSE IF srcObj.ql < self.quarterLength * 2 THEN "InsufficientDuration"
    ELSE "none"

GeneralMordentRealize(self, srcObj, ks) ==
    IF MordentPrecondition(self, srcObj) # "none"
    THEN Raised(MordentPrecondition(self, srcObj), srcObj)
    ELSE IF self.direction = "down" /\ ~HasReverse(self.size)
    THEN Raised("AttributeError", srcObj)
    ELSE
      LET remainderDuration == MordentRemainderDuration(self, srcObj)
          filled == FillListOfRealizedNotes(self, srcObj, <<>>,
                                            MordentTransposeInterval(self))
          mordNotes == [i \in DOMAIN filled.fill |-> WithKeyAccidental(filled.fill[i], ks)]
          remainderNote == [DeepCopy(filled.src) EXCEPT !.ql = remainderDuration]
      IN IF filled.err # "none" THEN Raised(filled.err, filled.src)
         ELSE Returned(mordNotes, <<remainderNote>>, <<>>, filled.src)

\* the loop of Trill.realize over range(int(numberOfTrillNotes / 2))
RECURSIVE FillTrillNotes(_, _, _, _, _)
FillTrillNotes(self, srcObj, fillObjects, transposeInterval, count) ==
    IF count <= 0
    THEN [err |-> "none", fill |-> fillObjects, src |-> srcObj]
    ELSE LET filled == FillListOfRealizedNotes(self, srcObj, fillObjects,
                                               transposeInterval)
         IN IF filled.err # "none" THEN filled
            ELSE FillTrillNotes(self, filled.src, filled.fill, transposeInterval,
                                count - 1)

\* the number of trill notes Trill.realize computes before its loop
NumberOfTrillNotes(self, srcObj) ==
    (srcObj.ql \div self.quarterLength) - (IF self.nachschlag THEN 2 ELSE 0)

\* the two length tests with the boundary on the wrong side
TrillTooShortInclusive(self, srcObj) ==
    \/ srcObj.ql <= 2 * self.quarterLength
    \/ srcObj.ql <= 4 * self.quarterLength /\ self.nachschlag

\* the two length tests of Trill.realize: "not long enough", "not long enough
\* for a nachschlag"
TrillTooShort(self, srcObj) ==
    \/ srcObj.ql < 2 * self.quarterLength
    \/ srcObj.ql < 4 * self.quarterLength /\ self.nachschlag

\* the reversal forgotten
TransposeIntervalNotReversed(self) == self.size

\* "transposeIntervalReverse = self.size.reverse()"
TransposeIntervalReverse(self) == Reverse(self.size)

TrillRealize(self, srcObj, ks) ==
    IF srcObj.ql = 0 THEN Raised("ZeroDuration", srcObj)
    ELSE IF TrillTooShort(self, srcObj)
    THEN Raised("InsufficientDuration", srcObj)
    ELSE IF ~HasReverse(self.size) THEN Raised("AttributeError", srcObj)
    ELSE
      LET transposeInterval == self.size
          transposeIntervalReverse == TransposeIntervalReverse(self)
          numberOfTrillNotes == NumberOfTrillNotes(self, srcObj)
          filled == FillTrillNotes(self, srcObj, <<>>, transposeInterval,
                                   numberOfTrillNotes \div 2)
          src == filled.src
          trillNotes ==
              [i \in DOMAIN filled.fill |->
                  IF self.setAccidentalFromKeySig
                     /\ NameWithOctave(filled.fill[i].pitch) # NameWithOctave(src.pitch)
                  THEN WithKeyAccidental(filled.fill[i], ks)
                  ELSE filled.fill[i]]
          bare == [DeepCopy(src) EXCEPT !.expressions = <<>>,
                                        !.ql = self.quarterLength]
          firstNoteNachschlag ==
              IF self.setAccidentalFromKeySig THEN WithKeyAccidental(bare, ks) ELSE bare
          secondNoteNachschlag ==
              IF self.setAccidentalFromKeySig
              THEN WithKeyAccidental(Transposed(bare, transposeIntervalReverse), ks)
              ELSE Transposed(bare, transposeIntervalReverse)
      IN IF filled.err # "none" THEN Raised(filled.err, src)
         ELSE IF self.nachschlag
         THEN Returned(trillNotes, <<>>,
                       <<firstNoteNachschlag, secondNoteNachschlag>>, src)
         ELSE Returned(trillNotes, <<>>, <<>>, src)

\* the third note sent the way of the first
TransposeIntervalDownIsUp(self) == self.size

\* "transposeIntervalDown = self.size.reverse()"
TransposeIntervalDown(self) == Reverse(self.size)

TurnRealize(self, srcObject, ks) ==
    IF self.size.kind = "none" THEN Raised("MissingSize", srcObject)
    ELSE IF srcObject.ql = 0 THEN Raised("ZeroDuration", srcObject)
    ELSE IF srcObject.ql < 4 * self.quarterLength
    THEN Raised("InsufficientDuration", srcObject)
    ELSE IF ~HasReverse(self.size) \/ ~srcObject.pitched
    THEN Raised("AttributeError", srcObject)
    ELSE
      LET remainderDuration == srcObject.ql - 4 * self.quarterLength
          transposeIntervalUp == self.size
          transposeIntervalDown == TransposeIntervalDown(self)
          bare == [DeepCopy(srcObject) EXCEPT !.expressions = <<>>,
                                              !.ql = self.quarterLength]
          firstNote == Transposed(bare, transposeIntervalUp)
          secondNote == bare
          thirdNote == Transposed(bare, transposeIntervalDown)
          fourthNote == bare
          turnNotes ==
              [i \in 1..4 |->
                  WithKeyAccidental(<<firstNote, secondNote, thirdNote, fourthNote>>[i],
                                    ks)]
          remainderNote == [DeepCopy(srcObject) EXCEPT !.ql = remainderDuration]
      IN Returned(<<>>, <<remainderNote>>, turnNotes, srcObject)

\* the two directions exchanged
AppoggiaturaIntervalSwapped(self) ==
    IF self.direction = "down" THEN Reverse(self.size) ELSE self.size

\* the interval of the appoggiatura note
AppoggiaturaTransposeInterval(self) ==
    IF self.direction = "down" THEN self.size ELSE Reverse(self.size)

GeneralAppoggiaturaRealize(self, srcObj, ks) ==
    IF self.direction \notin {"up", "down"} THEN Raised("MissingDirection", srcObj)
    ELSE IF self.size.kind = "empty" THEN Raised("MissingSize", srcObj)
    ELSE IF srcObj.ql = 0 THEN Raised("ZeroDuration", srcObj)
    ELSE IF (self.direction = "up" /\ ~HasReverse(self.size)) \/ ~srcObj.pitched
    THEN Raised("AttributeError", srcObj)
    ELSE
      LET newDuration == srcObj.ql \div 2
          transposeInterval == AppoggiaturaTransposeInterval(self)
          appoggiaturaNote ==
              Transposed([DeepCopy(srcObj) EXCEPT !.ql = newDuration], transposeInterval)
          remainderNote == [DeepCopy(srcObj) EXCEPT !.ql = newDuration]
      IN Returned(<<appoggiaturaNote>>, <<remainderNote>>, <<>>, srcObj)

\* base.splitAtQuarterLength(quarterLength, retainOrigin=False): the head of
\* the given length and the tail of what is left
SplitAtQuarterLength(n, quarterLength) ==
    <<[n EXCEPT !.ql = quarterLength], [n EXCEPT !.ql = n.ql - quarterLength]>>

\* list.remove(self): the first element that is the object self goes
RemoveObject(exprs, self) ==
    LET hits == {i \in DOMAIN exprs : IsSameObject(exprs[i], self)}
        k == CHOOSE i \in hits : \A j \in hits : i <= j
    IN IF hits = {} THEN exprs
       ELSE [i \in 1..(Len(exprs) - 1) |-> IF i < k THEN exprs[i] ELSE exprs[i + 1]]

\* the while loop of Tremolo.realize and the append that follows it
RECURSIVE TremoloSlices(_, _, _)
TremoloSlices(eRemain, lengthOfEach, objsConverted) ==
    IF eRemain.ql > lengthOfEach
    THEN LET parts == SplitAtQuarterLength(eRemain, lengthOfEach)
         IN TremoloSlices(parts[2], lengthOfEach, Append(objsConverted, parts[1]))
    ELSE Append(objsConverted, eRemain)

TremoloRealize(self, srcObj) ==
    LET lengthOfEach == QLUnit \div (2 ^ self.numberOfMarks)
        copied == DeepCopy(srcObj)
        eRemain == [copied EXCEPT !.expressions = RemoveObject(@, self)]
    IN Returned(TremoloSlices(eRemain, lengthOfEach, <<>>), <<>>, <<>>, srcObj)

\* thisExpression.realize(srcObject): the method the class of self resolves to
Realize(self, srcObj, ks) ==
    IF self.cls \in MordentClasses THEN GeneralMordentRealize(self, srcObj, ks)
    ELSE IF self.cls \in TrillClasses THEN TrillRealize(self, srcObj, ks)
    ELSE IF self.cls \in TurnClasses THEN TurnRealize(self, srcObj, ks)
    ELSE IF self.cls \in AppoggiaturaClasses
    THEN GeneralAppoggiaturaRealize(self, srcObj, ks)
    ELSE IF self.cls = "Tremolo" THEN TremoloRealize(self, srcObj)
    ELSE OrnamentRealize(self, srcObj)

\* ------------------------------------------------------- numberOfMarks

DigitChars == <<"0", "1", "2", "3", "4", "5", "6", "7", "8", "9">>
IsDigit(c) == \E i \in DOMAIN DigitChars : DigitChars[i] = c
DigitOf(c) == (CHOOSE i \in DOMAIN DigitChars : DigitChars[i] = c) - 1

RECURSIVE DigitsValue(_)
DigitsValue(text) ==
    IF text = <<>> THEN 0
    ELSE Len(DigitChars) * DigitsValue(SubSeq(text, 1, Len(text) - 1))
         + DigitOf(text[Len(text)])

\* int(num): an int is itself, a float is cut towards zero, a string of
\* decimal digits is read, any other string is a ValueError, None a TypeError
PyInt(v) ==
    IF v.type = "int" THEN [err |-> "none", val |-> v.num]
    ELSE IF v.type = "float"
    THEN [err |-> "none",
          val |-> IF v.num >= 0 THEN v.num \div v.den
                  ELSE 0 - ((0 - v.num) \div v.den)]
    ELSE IF v.type = "str"
    THEN IF v.text # <<>> /\ \A i \in DOMAIN v.text : IsDigit(v.text[i])
         THEN [err |-> "none", val |-> DigitsValue(v.text)]
         ELSE [err |-> "ValueError", val |-> 0]
    ELSE [err |-> "TypeError", val |-> 0]

\* the numberOfMarks setter of Tremolo and of TremoloSpanner: the exception
\* raised and the object afterwards
SetNumberOfMarks(obj, num) ==
    LET conv == PyInt(num)
    IN IF conv.err = "TypeError" THEN [err |-> "TypeError", obj |-> obj]
       ELSE IF conv.err = "ValueError" \/ conv.val < 0 \/ conv.val > MaxMarks
       THEN [err |-> "TremoloException", obj |-> obj]
       ELSE [err |-> "none", obj |-> [obj EXCEPT !.numberOfMarks = conv.val]]

\* ------------------------------------------------------------ placement
UpperChars ==
    <<"A", "B", "C", "D", "E", "F", "G", "H", "I", "J", "K", "L", "M",
      "N", "O", "P", "Q", "R", "S", "T", "U", "V", "W", "X", "Y", "Z">>
LowerChars ==
    <<"a", "b", "c", "d", "e", "f", "g", "h", "i", "j", "k", "l", "m",
      "n", "o", "p", "q", "r", "s", "t", "u", "v", "w", "x", "y", "z">>

\* str.lower()
LowerChar(c) ==
    IF \E i \in DOMAIN UpperChars : UpperChars[i] = c
    THEN LowerChars[CHOOSE i \in DOMAIN UpperChars : UpperChars[i] = c]
    ELSE c
Lower(text) == [i \in DOMAIN text |-> LowerChar(text[i])]

Above == <<"a", "b", "o", "v", "e">>
Below == <<"b", "e", "l", "o", "w">>

\* TrillExtension._setPlacement: None passes the test and is not stored; a
\* value without lower() is an AttributeError
TrillExtensionSetPlacement(obj, value) ==
    IF value.type = "NoneType" THEN [err |-> "none", obj |-> obj]
    ELSE IF value.type # "str" THEN [err |-> "AttributeError", obj |-> obj]
    ELSE IF Lower(value.text) \notin {Above, Below}
    THEN [err |-> "TrillExtensionException", obj |-> obj]
    ELSE [err |-> "none", obj |-> [obj EXCEPT !.placement = StrValue(Lower(value.text))]]

\* TremoloSpanner.placement is a plain attribute
TremoloSpannerSetPlacement(obj, value) ==
    [err |-> "none", obj |-> [obj EXCEPT !.placement = value]]

\* "obj.placement = value"
SetPlacement(obj, value) ==
    IF obj.cls = "TrillExtension" THEN TrillExtensionSetPlacement(obj, value)
    ELSE TremoloSpannerSetPlacement(obj, value)

\* ------------------------------------------ measureNumberComesBefore
\* the characters in code-point order, for the comparison of strings
CodePointOrder == DigitChars \o UpperChars \o LowerChars
Ord(c) == CHOOSE i \in DOMAIN CodePointOrder : CodePointOrder[i] = c

\* a < b on strings
RECURSIVE StrLess(_, _)
StrLess(a, b) ==
    IF b = <<>> THEN FALSE
    ELSE IF a = <<>> THEN TRUE
    ELSE IF Head(a) # Head(b) THEN Ord(Head(a)) < Ord(Head(b))
    ELSE StrLess(Tail(a), Tail(b))

\* the loop of splitSuffix: the length of the leading run of numeric characters
RECURSIVE NumericPrefixLen(_)
NumericPrefixLen(measureNumber) ==
    IF measureNumber = <<>> \/ ~IsDigit(Head(measureNumber)) THEN 0
    ELSE 1 + NumericPrefixLen(Tail(measureNumber))

SplitSuffix(measureNumber) ==
    LET k == NumericPrefixLen(measureNumber)
    IN [number |-> SubSeq(measureNumber, 1, k),
        suffix |-> SubSeq(measureNumber, k + 1, Len(measureNumber))]

\* sorted([m1Suffix, m2Suffix]): the sort is stable, so the second string
\* comes first only when it is smaller; each element is tagged with the
\* argument it came from
SortedSuffixes(m1Suffix, m2Suffix) ==
    IF StrLess(m2Suffix, m1Suffix)
    THEN <<[from |-> 2, text |-> m2Suffix], [from |-> 1, text |-> m1Suffix]>>
    ELSE <<[from |-> 1, text |-> m1Suffix], [from |-> 2, text |-> m2Suffix]>>

\* "True", "False", or the exception int() raises on an empty numeric part
MeasureNumberComesBefore(m1, m2) ==
    IF m1 = m2 THEN "False"
    ELSE LET s1 == SplitSuffix(m1)
             s2 == SplitSuffix(m2)
             m1Numeric == PyInt(StrValue(s1.number))
             m2Numeric == PyInt(StrValue(s2.number))
         IN IF m1Numeric.err # "none" THEN m1Numeric.err
            ELSE IF m2Numeric.err # "none" THEN m2Numeric.err
            ELSE IF m1Numeric.val # m2Numeric.val
            THEN IF m1Numeric.val < m2Numeric.val THEN "True" ELSE "False"
            ELSE \* "m1Suffix is sortedSuffixes[0]": when the second string
                 \* sorts first it is a different string, hence another object
                 IF SortedSuffixes(s1.suffix, s2.suffix)[1].from = 1
                 THEN "True" ELSE "False"

NotCompared == [fwd |-> "none", bwd |-> "none"]

\* ------------------------------------------------------------------- clefs
\* The PitchClef classes of clef.py, every one with its base class.
ClefBases ==
    [PitchClef |-> "Clef",
     TabClef |-> "PitchClef", GClef |-> "PitchClef", CClef |-> "PitchClef", FClef |-> "PitchClef",
     FrenchViolinClef |-> "GClef", TrebleClef |-> "GClef", GSopranoClef |-> "GClef",
     Treble8vbClef |-> "TrebleClef", Treble8vaClef |-> "TrebleClef",
     SopranoClef |-> "CClef", MezzoSopranoClef |-> "CClef", AltoClef |-> "CClef",
     TenorClef |-> "CClef", CBaritoneClef |-> "CClef",
     FBaritoneClef |-> "FClef", BassClef |-> "FClef", Bass8vbClef |-> "FClef",
     Bass8vaClef |-> "FClef", SubBassClef |-> "FClef"]

PitchClefClasses == DOMAIN ClefBases

\* Clef.__init__: sign None, line None (0 here), _octaveChange 0.  lowestLine
\* is not an attribute of a Clef; PitchClef.__init__ sets it before anything
\* reads it, so the 0 here is never read.
ClefInit(cls) ==
    [cls |-> cls, sign |-> "None", line |-> 0, octaveChange |-> 0, lowestLine |-> 0]

\* PitchClef.octaveChange setter: lowestLine moves 7 steps per octave of the
\* difference between the new and the old value (lowestLine is never None in
\* the classes above)
SetOctaveChange(obj, newValue) ==
    LET oldOctaveChange == obj.octaveChange
    IN [obj EXCEPT !.octaveChange = newValue,
                   !.lowestLine = obj.lowestLine + (newValue - oldOctaveChange) * 7]

\* The assignments of one class's own __init__, after super().__init__(),
\* in the order the code makes them.
OwnInit(cls, obj) ==
    CASE cls = "PitchClef" -> [obj EXCEPT !.lowestLine = 31]
      [] cls = "TabClef" -> [obj EXCEPT !.sign = "TAB", !.line = 5]
      [] cls = "GClef" -> [obj EXCEPT !.sign = "G"]
      [] cls = "FrenchViolinClef" -> [obj EXCEPT !.line = 1, !.lowestLine = (7 * 4) + 5]
      [] cls = "TrebleClef" -> [obj EXCEPT !.line = 2, !.lowestLine = (7 * 4) + 3]
      [] cls = "Treble8vbClef" ->
            [SetOctaveChange(obj, -1) EXCEPT !.lowestLine = (7 * 3) + 3]
      [] cls = "Treble8vaClef" ->
            [SetOctaveChange(obj, 1) EXCEPT !.lowestLine = (7 * 3) + 3]
      [] cls = "GSopranoClef" -> [obj EXCEPT !.line = 3, !.lowestLine = (7 * 4) + 1]
      [] cls = "CClef" -> [obj EXCEPT !.sign = "C"]
      [] cls = "SopranoClef" -> [obj EXCEPT !.line = 1, !.lowestLine = (7 * 4) + 1]
      [] cls = "MezzoSopranoClef" -> [obj EXCEPT !.line = 2, !.lowestLine = (7 * 3) + 6]
      [] cls = "AltoClef" -> [obj EXCEPT !.line = 3, !.lowestLine = (7 * 3) + 4]
      [] cls = "TenorClef" -> [obj EXCEPT !.line = 4, !.lowestLine = (7 * 3) + 2]
      [] cls = "CBaritoneClef" -> [obj EXCEPT !.line = 5, !.lowestLine = (7 * 2) + 7]
      [] cls = "FClef" -> [obj EXCEPT !.sign = "F"]
      [] cls = "FBaritoneClef" -> [obj EXCEPT !.line = 3, !.lowestLine = (7 * 2) + 7]
      [] cls = "BassClef" -> [obj EXCEPT !.line = 4, !.lowestLine = (7 * 2) + 5]
      [] cls = "Bass8vbClef" ->
            [SetOctaveChange([obj EXCEPT !.line = 4], -1) EXCEPT !.lowestLine = (7 * 2) + 5]
      [] cls = "Bass8vaClef" ->
            [SetOctaveChange([obj EXCEPT !.line = 4], 1) EXCEPT !.lowestLine = (7 * 2) + 5]
      [] cls = "SubBassClef" -> [obj EXCEPT !.line = 5, !.lowestLine = (7 * 2) + 3]

\* cls.__init__ run on the object under construction: super().__init__()
\* first, then the class's own assignments
RECURSIVE InitChain(_, _)
InitChain(cls, obj) ==
    IF cls = "Clef" THEN obj ELSE OwnInit(cls, InitChain(ClefBases[cls], obj))

\* cls()
NewClef(cls) == InitChain(cls, ClefInit(cls))

\* ------------------------------------------------- realizeOrnaments, parts
\* a copy handed back in place of the object
IdentityResultCopy(srcObject) == <<DeepCopy(srcObject)>>

\* "return [srcObject]" of the two first branches
IdentityResult(srcObject) == <<srcObject>>

\* the slice forgotten: the list is kept whole
DropNone(expressions) == expressions

\* "srcObject.expressions[1:]"
DropFirst(expressions) == Tail(expressions)

\* the None test forgotten: the source goes on as the main note
AfterRealizeGoesOn(srcObject, res) ==
    LET main == IF res.remainder = <<>> THEN srcObject ELSE res.remainder[1]
        newSrcObject == [main EXCEPT !.expressions = Tail(srcObject.expressions)]
    IN [cur |-> <<newSrcObject>>, stop |-> newSrcObject.expressions = <<>>]

\* what follows a realize call that returned: the new srcObject (<<>> for
\* None) and whether the loop breaks
AfterRealize(srcObject, res) ==
    IF res.remainder = <<>>
    THEN [cur |-> <<>>, stop |-> TRUE]
    ELSE LET newSrcObject ==
                 [res.remainder[1] EXCEPT !.expressions = DropFirst(srcObject.expressions)]
         IN [cur |-> <<newSrcObject>>, stop |-> newSrcObject.expressions = <<>>]

\* the main note put first
RetListMainFirst(preExpand, cur, postExpand) == cur \o preExpand \o postExpand

\* the list built after the loop
RetList(preExpand, cur, postExpand) == preExpand \o cur \o postExpand

\* ------------------------------------------------------------------- state
VARIABLES
    note,            \* the caller's note object
    ks,              \* sharps of the key signature getContextByClass finds
    pc,              \* where the caller is
    callArg,         \* the caller's note as it was when the running call began
    srcObject,       \* realizeOrnaments: <<>> for None, else <<the note>>
    preExpandList,
    postExpandList,
    loopBuster,
    retList,         \* what the last call returned
    prevRet,         \* <<what the call before it returned>>, if any
    calls,           \* the realize calls of the running call, in order
    self,            \* the ornament of the last realize call
    given,           \* the source object handed to it
    rr,              \* what it gave
    realized,        \* whether realize was called at all
    assigned,        \* the last attribute assignment made on self
    mNum1,           \* the two measure numbers handed to
    mNum2,           \*   measureNumberComesBefore
    comesBefore      \* what it returned for (mNum1, mNum2) and (mNum2, mNum1)

vars == <<note, ks, pc, callArg, srcObject, preExpandList, postExpandList,
          loopBuster, retList, prevRet, calls, self, given, rr, realized, assigned,
          mNum1, mNum2, comesBefore>>

Pitches == {Pitch(0, 0, 4), Pitch(0, 1, 4), Pitch(6, 0, 4)}
KeySigs == {0 - 1, 0, 2}

\* the expressions a note under the driver carries
DriverExprs == {Fermata, Schleifer, GeneralMordent, Mordent, Trill, Turn, Tremolo}
ExprLists == UNION {[1..n -> DriverExprs] : n \in 0..MaxExprs}

\* the ornaments realize is called on directly
TrillVariants ==
    {Trill, HalfStepTrill, WholeStepTrill, Shake, WithNachschlag(Trill),
     WithNachschlag(HalfStepTrill), WithNachschlag(WholeStepTrill),
     WithNachschlag(Shake), WithSize(Trill, NoSize)}
MordentVariants ==
    {GeneralMordent, Mordent, HalfStepMordent, WholeStepMordent, InvertedMordent,
     WholeStepInvertedMordent, WithSize(Mordent, NoSize), WithSize(Mordent, EmptySize),
     WithSize(GeneralMordent, EmptySize)}
TurnVariants == {Turn, InvertedTurn, WithSize(Turn, NoSize)}
AppoggiaturaVariants ==
    {GeneralAppoggiatura, Appoggiatura, InvertedAppoggiatura,
     HalfStepInvertedAppoggiatura, WithSize(InvertedAppoggiatura, NoSize)}
TremoloVariants == {Tremolo, WithMarks(Tremolo, 1), WithMarks(Tremolo, 4)}
Ornaments ==
    {Schleifer} \cup TrillVariants \cup MordentVariants \cup TurnVariants
    \cup AppoggiaturaVariants \cup TremoloVariants

NoCall == Raised("none", Note(Pitch(0, 0, 4), 0, <<>>))

\* an attribute assignment "self.attr = value": the value, the exception the
\* setter raised ("none": it returned) and self as it was before
Assignment(attr, value, err, before) ==
    [attr |-> attr, value |-> value, err |-> err, before |-> before]

InitCommon ==
    /\ ks \in KeySigs
    /\ callArg = note
    /\ srcObject = <<>>
    /\ preExpandList = <<>>
    /\ postExpandList = <<>>
    /\ loopBuster = 0
    /\ retList = <<>>
    /\ prevRet = <<>>
    /\ calls = <<>>
    /\ given = note
    /\ rr = NoCall
    /\ realized = FALSE
    /\ assigned = Assignment("none", NoneValue, "none", self)
    /\ mNum1 = <<>>
    /\ mNum2 = <<>>
    /\ comesBefore = NotCompared

\* a note with its expressions, or an object that has no expressions attribute
Init ==
    /\ note \in {Note(p, d, es) : p \in Pitches, d \in Durations, es \in ExprLists}
                \cup {[Note(p, d, <<>>) EXCEPT !.hasExpressions = FALSE] :
                         p \in Pitches, d \in Durations}
    /\ pc = "idle"
    /\ self = Fermata
    /\ InitCommon

\* ------------------------------------------------------ realizeOrnaments
Callable == pc \in {"idle", "done", "raised"}

StartCall ==
    /\ callArg' = note
    /\ prevRet' = IF pc = "done" THEN <<retList>> ELSE prevRet
    /\ calls' = <<>>

\* lines 60-63
CallIdentity ==
    /\ Callable
    /\ ~note.hasExpressions \/ note.expressions = <<>>
    /\ StartCall
    /\ retList' = IdentityResult(note)
    /\ pc' = "done"
    /\ UNCHANGED <<mNum1, mNum2, comesBefore, assigned, note, ks, srcObject, preExpandList, postExpandList, loopBuster,
                   self, given, rr, realized>>

\* lines 64-68
CallExpand ==
    /\ Callable
    /\ note.hasExpressions /\ note.expressions # <<>>
    /\ StartCall
    /\ srcObject' = <<note>>
    /\ preExpandList' = <<>>
    /\ postExpandList' = <<>>
    /\ loopBuster' = LoopBusterStart
    /\ pc' = "loop"
    /\ UNCHANGED <<mNum1, mNum2, comesBefore, assigned, note, ks, retList, self, given, rr, realized>>

\* an assignment to the object srcObject names reaches the caller's note when
\* that object is the caller's
NoteAfter(cur) ==
    IF cur # <<>> /\ cur[1].obj = "input" THEN cur[1] ELSE note

\* the counter left out of the while test
PcAfterNoBuster(stop, busterLeft) == IF stop THEN "ret" ELSE "loop"

\* the while test after an iteration that did not break
PcAfter(stop, busterLeft) == IF stop \/ busterLeft = 0 THEN "ret" ELSE "loop"

\* the last expression taken instead of the first
ThisExpressionLast == srcObject[1].expressions[Len(srcObject[1].expressions)]

\* "thisExpression = srcObject.expressions[0]"
ThisExpression == Head(srcObject[1].expressions)

\* one iteration, lines 70-73: realize raises
IterRaise ==
    /\ pc = "loop"
    /\ HasRealize(ThisExpression)
    /\ rr' = Realize(ThisExpression, srcObject[1], ks)
    /\ rr'.err # "none"
    /\ self' = ThisExpression
    /\ given' = srcObject[1]
    /\ realized' = TRUE
    /\ calls' = Append(calls, [self |-> self', res |-> rr'])
    /\ srcObject' = <<rr'.src>>
    /\ note' = NoteAfter(srcObject')
    /\ loopBuster' = loopBuster - 1
    /\ pc' = "raised"
    /\ UNCHANGED <<mNum1, mNum2, comesBefore, assigned, ks, callArg, preExpandList, postExpandList, retList, prevRet>>

\* one iteration, lines 70-85: realize returns
IterRealize(consumed) ==
    /\ pc = "loop"
    /\ HasRealize(ThisExpression)
    /\ rr' = Realize(ThisExpression, srcObject[1], ks)
    /\ rr'.err = "none"
    /\ self' = ThisExpression
    /\ given' = srcObject[1]
    /\ realized' = TRUE
    /\ calls' = Append(calls, [self |-> self', res |-> rr'])
    /\ preExpandList' = preExpandList \o rr'.before
    /\ postExpandList' = postExpandList \o rr'.after
    /\ LET next == AfterRealize(rr'.src, rr')
       IN /\ (next.cur = <<>>) = consumed
          /\ srcObject' = next.cur
          /\ loopBuster' = loopBuster - 1
          /\ pc' = PcAfter(next.stop, loopBuster')
    /\ note' = IF srcObject' # <<>> /\ srcObject'[1].obj = "input"
               THEN srcObject'[1]
               ELSE NoteAfter(<<rr'.src>>)
    /\ UNCHANGED <<mNum1, mNum2, comesBefore, assigned, ks, callArg, retList, prevRet>>

\* the ornament ate the whole source object (lines 78-81)
IterConsumed == IterRealize(TRUE)

\* the ornament left a main note (lines 82-85)
IterRemainder == IterRealize(FALSE)

\* one iteration, lines 70-72 and 86-89: the expression cannot be realized
IterSkip ==
    /\ pc = "loop"
    /\ ~HasRealize(ThisExpression)
    /\ LET cur == [srcObject[1] EXCEPT !.expressions = DropFirst(@)]
       IN /\ srcObject' = <<cur>>
          /\ note' = NoteAfter(<<cur>>)
          /\ loopBuster' = loopBuster - 1
          /\ pc' = PcAfter(cur.expressions = <<>>, loopBuster')
    /\ UNCHANGED <<mNum1, mNum2, comesBefore, assigned, ks, callArg, preExpandList, postExpandList, retList, prevRet,
                   calls, self, given, rr, realized>>

\* lines 91-99
Return ==
    /\ pc = "ret"
    /\ retList' = RetList(preExpandList, srcObject, postExpandList)
    /\ pc' = "done"
    /\ UNCHANGED <<mNum1, mNum2, comesBefore, assigned, note, ks, callArg, srcObject, preExpandList, postExpandList,
                   loopBuster, prevRet, calls, self, given, rr, realized>>

Next ==
    \/ CallIdentity
    \/ CallExpand
    \/ IterRaise
    \/ IterConsumed
    \/ IterRemainder
    \/ IterSkip
    \/ Return

Spec == Init /\ [][Next]_vars

\* one call on a fresh note, from its entry to its return or its exception;
\* the driver goes on once it is called: its loop is sequential code
NextCall == pc \in {"idle", "loop", "ret"} /\ Next

CallExprs == {Fermata, Schleifer, Mordent, Trill}
CallExprLists == UNION {[1..n -> CallExprs] : n \in 0..MaxExprs}

InitCall ==
    /\ ks = 0
    /\ note \in {Note(Pitch(0, 0, 4), d, es) :
                    d \in {0, QL32nd, QL16th}, es \in CallExprLists}
    /\ pc = "idle"
    /\ self = Fermata
    /\ InitCommon

SpecCall == InitCall /\ [][NextCall]_vars /\ WF_vars(NextCall)

\* ------------------------------ realizeOrnaments on more than 100 expressions
\* the first LoopBusterStart expressions: none of them consumes the note
LongPrefixes ==
    {[i \in 1..LoopBusterStart |-> Fermata],
     [i \in 1..LoopBusterStart |-> Schleifer],
     [i \in 1..LoopBusterStart |-> IF i = 1 THEN Mordent ELSE Fermata]}

\* the expressions that follow them
LongTails ==
    {<<Fermata>>, <<Mordent>>, <<Trill>>, <<Schleifer, Turn>>, <<Fermata, Fermata>>}

InitLong ==
    /\ ks = 0
    /\ note \in {Note(Pitch(0, 0, 4), d, prefix \o tail) :
                    d \in {0, QLUnit}, prefix \in LongPrefixes, tail \in LongTails}
    /\ pc = "idle"
    /\ self = Fermata
    /\ InitCommon

SpecLong == InitLong /\ [][Next]_vars


\* ------------------------------------------------- realize, called directly
InitRealize ==
    /\ self \in Ornaments
    /\ note \in {[Note(p, d, es) EXCEPT !.pitched = b] :
                    p \in Pitches, d \in Durations, es \in {<<>>, <<self>>},
                    b \in BOOLEAN}
    /\ pc = "ready"
    /\ InitCommon

CallRealize ==
    /\ pc = "ready"
    /\ rr' = Realize(self, note, ks)
    /\ note' = rr'.src
    /\ given' = note
    /\ realized' = TRUE
    /\ pc' = "realized"
    /\ UNCHANGED <<mNum1, mNum2, comesBefore, assigned, ks, callArg, srcObject, preExpandList, postExpandList,
                   loopBuster, retList, prevRet, calls, self>>

NextRealize == CallRealize

SpecRealize == InitRealize /\ [][NextRealize]_vars

\* ------------------------------------------- assignments to numberOfMarks
MarkInputs ==
    {IntValue(n) : n \in (0 - MarkMargin)..(MaxMarks + MarkMargin)}
    \cup {FloatValue(2 * n + 1, 2) : n \in (0 - MarkMargin)..(MaxMarks + MarkMargin)}
    \cup {StrValue(<<"H", "i">>), StrValue(<<"3">>), StrValue(<<"1", "2">>),
          StrValue(<<"2", ".", "5">>), StrValue(<<>>), NoneValue}

InitMarks ==
    /\ self \in {Tremolo, TremoloSpanner}
    /\ note = Note(Pitch(0, 0, 4), QLUnit, <<>>)
    /\ pc = "attrs"
    /\ InitCommon

\* "self.numberOfMarks = num"
AssignNumberOfMarks ==
    /\ pc = "attrs"
    /\ \E num \in MarkInputs :
          LET res == SetNumberOfMarks(self, num)
          IN /\ self' = res.obj
             /\ assigned' = Assignment("numberOfMarks", num, res.err, self)
    /\ UNCHANGED <<mNum1, mNum2, comesBefore, note, ks, pc, callArg, srcObject, preExpandList, postExpandList,
                   loopBuster, retList, prevRet, calls, given, rr, realized>>

NextMarks == AssignNumberOfMarks

SpecMarks == InitMarks /\ [][NextMarks]_vars

\* ------------------------------------------------ assignments to placement
PlacementInputs ==
    {StrValue(Above), StrValue(Below), StrValue(<<"A", "b", "o", "v", "e">>),
     StrValue(<<"B", "E", "L", "O", "W">>), StrValue(<<"a", "B", "o", "V", "e">>),
     StrValue(<<"l", "e", "f", "t">>), StrValue(<<"u", "p">>), StrValue(<<>>),
     NoneValue, IntValue(1)}

InitPlacement ==
    /\ self \in {TrillExtension, TremoloSpanner}
    /\ note = Note(Pitch(0, 0, 4), QLUnit, <<>>)
    /\ pc = "attrs"
    /\ InitCommon

\* "self.placement = value"
AssignPlacement ==
    /\ pc = "attrs"
    /\ \E value \in PlacementInputs :
          LET res == SetPlacement(self, value)
          IN /\ self' = res.obj
             /\ assigned' = Assignment("placement", value, res.err, self)
    /\ UNCHANGED <<mNum1, mNum2, comesBefore, note, ks, pc, callArg, srcObject, preExpandList, postExpandList,
                   loopBuster, retList, prevRet, calls, given, rr, realized>>

NextPlacement == AssignPlacement

SpecPlacement == InitPlacement /\ [][NextPlacement]_vars

\* ------------------------------------------- measureNumberComesBefore calls
MeasureAlphabet == {"0", "1", "a", "b"}
MeasureNumbers == UNION {[1..n -> MeasureAlphabet] : n \in 1..MaxNumLen}

InitMeasure ==
    /\ self = Fermata
    /\ note = Note(Pitch(0, 0, 4), QLUnit, <<>>)
    /\ pc = "compare"
    /\ ks = 0
    /\ callArg = note
    /\ srcObject = <<>>
    /\ preExpandList = <<>>
    /\ postExpandList = <<>>
    /\ loopBuster = 0
    /\ retList = <<>>
    /\ prevRet = <<>>
    /\ calls = <<>>
    /\ given = note
    /\ rr = NoCall
    /\ realized = FALSE
    /\ assigned = Assignment("none", NoneValue, "none", self)
    /\ mNum1 \in MeasureNumbers
    /\ mNum2 \in MeasureNumbers
    /\ comesBefore = NotCompared

\* measureNumberComesBefore(mNum1, mNum2)
CompareForward ==
    /\ pc = "compare"
    /\ comesBefore.fwd = "none"
    /\ comesBefore' = [comesBefore EXCEPT !.fwd = MeasureNumberComesBefore(mNum1, mNum2)]
    /\ UNCHANGED <<note, ks, pc, callArg, srcObject, preExpandList, postExpandList,
                   loopBuster, retList, prevRet, calls, self, given, rr, realized,
                   assigned, mNum1, mNum2>>

\* measureNumberComesBefore(mNum2, mNum1)
CompareBackward ==
    /\ pc = "compare"
    /\ comesBefore.bwd = "none"
    /\ comesBefore' = [comesBefore EXCEPT !.bwd = MeasureNumberComesBefore(mNum2, mNum1)]
    /\ UNCHANGED <<note, ks, pc, callArg, srcObject, preExpandList, postExpandList,
                   loopBuster, retList, prevRet, calls, self, given, rr, realized,
                   assigned, mNum1, mNum2>>

NextMeasure == CompareForward \/ CompareBackward

SpecMeasure == InitMeasure /\ [][NextMeasure]_vars

\* ---------------------------------------------- octaveChange of a PitchClef
OctaveChanges == (0 - MaxOctaveChange)..MaxOctaveChange

\* self is a clef as its constructor leaves it
InitClef ==
    /\ self \in {NewClef(cls) : cls \in PitchClefClasses}
    /\ note = Note(Pitch(0, 0, 4), QLUnit, <<>>)
    /\ pc = "attrs"
    /\ InitCommon

\* "self.octaveChange = newValue"
AssignOctaveChange ==
    /\ pc = "attrs"
    /\ \E newValue \in OctaveChanges :
          /\ self' = SetOctaveChange(self, newValue)
          /\ assigned' = Assignment("octaveChange", IntValue(newValue), "none", self)
    /\ UNCHANGED <<mNum1, mNum2, comesBefore, note, ks, pc, callArg, srcObject, preExpandList, postExpandList,
                   loopBuster, retList, prevRet, calls, given, rr, realized>>

NextClef == AssignOctaveChange

SpecClef == InitClef /\ [][NextClef]_vars

\* ------------------------------------------------------------ properties
RECURSIVE SumQL(_)
SumQL(notes) == IF notes = <<>> THEN 0 ELSE Head(notes).ql + SumQL(Tail(notes))

RECURSIVE Befores(_)
Befores(cs) == IF cs = <<>> THEN <<>> ELSE Head(cs).res.before \o Befores(Tail(cs))

RECURSIVE Afters(_)
Afters(cs) == IF cs = <<>> THEN <<>> ELSE Head(cs).res.after \o Afters(Tail(cs))

\* a note without its expressions list
Core(n) == [obj |-> n.obj, pitch |-> n.pitch, ql |-> n.ql]
Cores(notes) == [i \in DOMAIN notes |-> Core(notes[i])]

IsPrefix(a, b) == Len(a) <= Len(b) /\ \A i \in DOMAIN a : a[i] = b[i]

Expanding == callArg.hasExpressions /\ callArg.expressions # <<>>
RealizeReturned == pc = "realized" /\ rr.err = "none"

\* C1: whenever realize succeeds, the quarter lengths of the notes of before,
\* remainder (if any) and after add up to the source's quarter length.
C1_DurationConserved ==
    RealizeReturned => SumQL(rr.before \o rr.remainder \o rr.after) = given.ql

\* C2: on a note without an expressions attribute or with an empty list,
\* realizeOrnaments returns the one-element list of that very object, calls
\* no realize and leaves the note as it was.
C2_IdentityCase ==
    (pc = "done" /\ ~Expanding) =>
        /\ retList = <<callArg>>
        /\ retList[1].obj = "input"
        /\ note = callArg
        /\ calls = <<>>

C2_Witness ==
    /\ pc = "done"
    /\ callArg.hasExpressions
    /\ callArg.expressions = <<>>
    /\ retList = <<note>>

\* C3: on a note with expressions the returned list is the before lists of
\* the realized ornaments in order, then the current main note if there is
\* one (the last remainder), then their after lists in order; a single Turn
\* gives the shortened main note and then the four turn notes, a single
\* Mordent the two grace notes and then the main note.
C3_ResultOrder ==
    (pc = "done" /\ Expanding) =>
        /\ retList = Befores(calls) \o srcObject \o Afters(calls)
        /\ Cores(srcObject) =
              Cores(IF calls = <<>> THEN <<callArg>>
                    ELSE calls[Len(calls)].res.remainder)
        /\ callArg.expressions = <<Turn>> =>
              /\ Len(retList) = 5
              /\ Core(retList[1]) =
                    [obj |-> "copy", pitch |-> callArg.pitch,
                     ql |-> callArg.ql - 4 * Turn.quarterLength]
              /\ SubSeq(retList, 2, 5) = calls[1].res.after
        /\ callArg.expressions = <<Mordent>> =>
              /\ Len(retList) = 3
              /\ SubSeq(retList, 1, 2) = calls[1].res.before
              /\ Core(retList[3]) =
                    [obj |-> "copy", pitch |-> callArg.pitch,
                     ql |-> callArg.ql - 2 * Mordent.quarterLength]

C3_Witness ==
    /\ pc = "done"
    /\ callArg.expressions = <<Turn, Mordent>>
    /\ Len(retList) = 7
    /\ retList[3].obj = "copy"

\* C4: after a call the input note's pitch, duration and expressions are what
\* they were before it, and a call that follows a call returns an equal list.
C4_InputUntouched ==
    /\ pc \in {"done", "raised"} => note = callArg
    /\ (pc = "done" /\ prevRet # <<>>) => retList = prevRet[1]

\* C5: for a note with at least one expression, no note of the returned list
\* is the input object.
C5_NoInputInResult ==
    (pc = "done" /\ Expanding) => \A i \in DOMAIN retList : retList[i].obj # "input"

\* C6: once a realize call returns no remainder, its before and after notes
\* are appended, the main note is None, no further realize call is made in
\* this call of the driver, and the returned list has no main note.
C6_ConsumedStops ==
    \A i \in DOMAIN calls :
        (calls[i].res.err = "none" /\ calls[i].res.remainder = <<>>) =>
            /\ i = Len(calls)
            /\ pc \in {"ret", "done"}
            /\ srcObject = <<>>
            /\ preExpandList = Befores(calls)
            /\ postExpandList = Afters(calls)
            /\ pc = "done" => retList = preExpandList \o postExpandList

C6_Witness ==
    /\ pc = "done"
    /\ callArg.expressions = <<Trill, Mordent>>
    /\ Len(calls) = 1
    /\ calls[1].res.remainder = <<>>
    /\ retList = calls[1].res.before
    /\ retList # <<>>

\* C7: an iteration whose first expression has no realize drops it from the
\* working note, appends nothing and calls nothing, and the loop goes on with
\* the next expression (or ends when none is left); the ornaments realized in
\* a call are those of the list without its opaque expressions, in order.
C7_SkipStep ==
    (pc = "loop" /\ ~HasRealize(Head(srcObject[1].expressions))) =>
        /\ srcObject' = <<[srcObject[1] EXCEPT !.expressions = Tail(@)]>>
        /\ preExpandList' = preExpandList
        /\ postExpandList' = postExpandList
        /\ calls' = calls
        /\ pc' = IF Len(srcObject[1].expressions) = 1 \/ loopBuster = 1
                 THEN "ret" ELSE "loop"

\* C7, whole: every step is a C7_SkipStep step, and in every state the
\* ornaments realized so far are a prefix of the realizable expressions of
\* the list the call was given.
C7_SkipOpaque ==
    /\ [][C7_SkipStep]_vars
    /\ [](IsPrefix([i \in DOMAIN calls |-> calls[i].self],
                   SelectSeq(callArg.expressions, HasRealize)))

C7_Witness ==
    /\ pc = "done"
    /\ callArg.expressions = <<Fermata, Mordent>>
    /\ Len(calls) = 1
    /\ calls[1].self = Mordent
    /\ Len(retList) = 3

\* C8: a realize call, whether it returns or raises, leaves the source note's
\* pitch, duration and expressions list as they were.
C8_SourceUntouched ==
    pc = "realized" => (rr.src = given /\ note = given)

C8_Witness ==
    /\ RealizeReturned
    /\ self = WholeStepMordent
    /\ given.expressions # <<>>
    /\ rr.before[2].pitch # given.pitch

\* C9: a mordent with its direction and size set, on a pitched source of
\* duration d >= 2q, returns two grace notes of duration q, the first on the
\* source's step and octave, the second a step below the source (direction
\* down) or above it (direction up), on the step and octave of the source
\* transposed by size in that direction, both with the accidental the key
\* signature gives their step, then a copy of the source at its pitch with
\* duration d - 2q, and an empty after list.
C9_Applies ==
    /\ pc = "realized"
    /\ self.cls \in MordentClasses
    /\ self.direction \in {"up", "down"}
    /\ HasReverse(self.size)
    /\ given.pitched
    /\ given.ql >= 2 * self.quarterLength

C10_TrillCount ==
    (RealizeReturned /\ self.cls \in TrillClasses) =>
        /\ Len(rr.before) =
              (given.ql \div self.quarterLength) - (IF self.nachschlag THEN 2 ELSE 0)
        /\ \A i \in DOMAIN rr.before :
              /\ rr.before[i].ql = self.quarterLength
              /\ rr.before[i].pitch.step =
                    (IF i % 2 = 1 THEN given.pitch
                     ELSE TransposePitch(given.pitch, self.size)).step

C12_SourceAccidentalKept ==
    (RealizeReturned /\ self.cls \in TrillClasses /\ self.setAccidentalFromKeySig) =>
        /\ \A i \in DOMAIN rr.before :
              IF i % 2 = 1
              THEN rr.before[i].pitch = given.pitch
              ELSE rr.before[i].pitch.acc = AccidentalByStep(ks, rr.before[i].pitch.step)
        /\ rr.after # <<>> =>
              /\ rr.after[1].pitch = given.pitch
              /\ rr.after[2].pitch.acc = AccidentalByStep(ks, rr.after[2].pitch.step)

\* the pitches of the notes a realize call returned, in order
PitchesOf(res) ==
    [i \in 1..(Len(res.before) + Len(res.after)) |-> (res.before \o res.after)[i].pitch]

\* the semitones of a half-step and of a whole-step trill
TrillSemitones(cls) == IF cls = "HalfStepTrill" THEN 1 ELSE 2

\* C13: a HalfStepTrill or WholeStepTrill that returns under one key
\* signature returns under every other, with the same pitches in the same
\* order; its upper notes lie one staff step and 1 (half-step) or 2
\* (whole-step) semitones above the source, its other trill notes and its
\* first nachschlag note on the source's pitch.
C13_KeyIndependent ==
    (RealizeReturned /\ self.cls \in {"HalfStepTrill", "WholeStepTrill"}) =>
        /\ \A k \in KeySigs :
              /\ Realize(self, given, k).err = "none"
              /\ PitchesOf(Realize(self, given, k)) = PitchesOf(rr)
        /\ \A i \in DOMAIN rr.before :
              IF i % 2 = 1
              THEN rr.before[i].pitch = given.pitch
              ELSE /\ DiatonicNoteNum(rr.before[i].pitch) =
                         DiatonicNoteNum(given.pitch) + 1
                   /\ PitchSpace(rr.before[i].pitch) =
                         PitchSpace(given.pitch) + TrillSemitones(self.cls)
        /\ rr.after # <<>> => rr.after[1].pitch = given.pitch

C13_Witness ==
    /\ RealizeReturned
    /\ self = WithNachschlag(WholeStepTrill)
    /\ ks = 0 - 1
    /\ given.pitch = Pitch(6, 0, 4)
    /\ rr.before[2].pitch = Pitch(0, 1, 5)
    /\ rr.before[2].pitch.acc # AccidentalByStep(ks, rr.before[2].pitch.step)
    /\ rr.after[1].pitch.acc # AccidentalByStep(ks, rr.after[1].pitch.step)

\* C14: a turn with its size set, on a pitched source of duration d >= 4q,
\* returns an empty before list, four copies of duration q in the after list,
\* on the step above the source, the source's step, the step below it and the
\* source's step (InvertedTurn: below, source, above, source), each with the
\* accidental the key signature gives its step, and as main note a copy of
\* the source at its pitch with duration d - 4q.
C14_Applies ==
    /\ pc = "realized"
    /\ self.cls \in TurnClasses
    /\ HasReverse(self.size)
    /\ given.pitched
    /\ given.ql >= 4 * self.quarterLength

C15_Applies ==
    /\ pc = "realized"
    /\ self.cls \in AppoggiaturaClasses
    /\ self.direction \in {"up", "down"}
    /\ HasReverse(self.size)
    /\ given.pitched
    /\ given.ql > 0

C15_AppoggiaturaShape ==
    C15_Applies =>
        /\ rr.err = "none"
        /\ Len(rr.before) = 1
        /\ Len(rr.remainder) = 1
        /\ rr.after = <<>>
        /\ rr.before[1].obj = "copy"
        /\ 2 * rr.before[1].ql = given.ql
        /\ 2 * rr.remainder[1].ql = given.ql
        /\ rr.remainder[1].obj = "copy"
        /\ rr.remainder[1].pitch = given.pitch
        /\ rr.before[1].pitch =
              TransposePitch(given.pitch,
                             IF self.direction = "down" THEN self.size
                             ELSE Reverse(self.size))
        /\ \A k \in KeySigs : Realize(self, given, k) = rr

C15_Witness ==
    /\ C15_Applies
    /\ self = Appoggiatura
    /\ ks = 2
    /\ given.ql = DurStep
    /\ given.pitch = Pitch(0, 1, 4)
    /\ rr.before[1].pitch = Pitch(1, 1, 4)
    /\ rr.before[1].pitch.acc # AccidentalByStep(ks, rr.before[1].pitch.step)

\* 2 ** (-numberOfMarks) quarter lengths, in ticks
SliceLength(marks) == QLUnit \div (2 ^ marks)

\* C16: a tremolo of m marks on a source of duration d returns, with None
\* and an empty after list, ceil(d / sliceLength) slices at the source's
\* pitch, every one but the last of duration sliceLength = 2^(-m), the last
\* of a duration greater than 0 and at most sliceLength; three marks on a
\* quarter note give 8 notes of 0.125.
C16_TremoloSlices ==
    (pc = "realized" /\ self.cls = "Tremolo") =>
        LET len == SliceLength(self.numberOfMarks)
            n == Len(rr.before)
        IN /\ rr.err = "none"
           /\ rr.remainder = <<>>
           /\ rr.after = <<>>
           /\ n = (given.ql + len - 1) \div len
           /\ \A i \in 1..n :
                 /\ rr.before[i].pitch = given.pitch
                 /\ i < n => rr.before[i].ql = len
                 /\ i = n => (rr.before[i].ql > 0 /\ rr.before[i].ql <= len)
           /\ (self.numberOfMarks = 3 /\ given.ql = QLUnit) =>
                 (n = 8 /\ \A i \in 1..n : rr.before[i].ql = QL32nd)

\* a value that is a number of marks: an integer, or its decimal numeral,
\* from 0 to 8
IsMarkCount(v) ==
    \/ v.type = "int" /\ v.num \in 0..MaxMarks
    \/ /\ v.type = "str"
       /\ PyInt(v).err = "none"
       /\ PyInt(v).val \in 0..MaxMarks

\* C17: assigning to numberOfMarks of a Tremolo or TremoloSpanner a value
\* that is not an integer from 0 to 8 raises TremoloException and leaves the
\* stored number as it was; the stored number is always in 0..8 and, once
\* assigned, is the value that was assigned.
C17_MarksRejected ==
    /\ self.numberOfMarks \in 0..MaxMarks
    /\ assigned.attr = "numberOfMarks" =>
          IF IsMarkCount(assigned.value)
          THEN /\ assigned.err = "none"
               /\ self.numberOfMarks = PyInt(assigned.value).val
          ELSE /\ assigned.err = "TremoloException"
               /\ self.numberOfMarks = assigned.before.numberOfMarks

\* an ornament with everything set that its realize reads, on a source that
\* can be transposed
WellFormedCall ==
    /\ pc = "realized"
    /\ given.pitched
    /\ self.cls \in MordentClasses \cup AppoggiaturaClasses => self.direction \in {"up", "down"}
    /\ self.cls \in MordentClasses \cup TrillClasses \cup TurnClasses
                    \cup AppoggiaturaClasses => HasReverse(self.size)

\* the least source duration the ornament asks for
MinimumDuration(e) ==
    IF e.cls \in TurnClasses \/ (e.cls \in TrillClasses /\ e.nachschlag)
    THEN 4 * e.quarterLength
    ELSE IF e.cls \in MordentClasses \cup TrillClasses THEN 2 * e.quarterLength
    ELSE 0

\* C18: a well-formed realize call fails with InsufficientDuration exactly
\* when 0 < d < the ornament's minimum (2q for mordents and trills, 4q for
\* turns and nachschlag trills); with d at the minimum or above it succeeds:
\* a trill without nachschlag on d = 2q with exactly two trill notes, a
\* mordent on d = 2q with a main note of duration 0.
C18_InsufficientDuration ==
    WellFormedCall =>
        /\ (rr.err = "InsufficientDuration") =
              (given.ql > 0 /\ given.ql < MinimumDuration(self))
        /\ (given.ql > 0 /\ given.ql >= MinimumDuration(self)) => rr.err = "none"
        /\ (self.cls \in TrillClasses /\ ~self.nachschlag
            /\ given.ql = 2 * self.quarterLength) =>
              (Len(rr.before) = 2 /\ rr.remainder = <<>> /\ rr.after = <<>>)
        /\ (self.cls \in MordentClasses /\ given.ql = 2 * self.quarterLength) =>
              (Len(rr.remainder) = 1 /\ rr.remainder[1].ql = 0)

\* a nachschlag trill at its boundary d = 4q
C18_Witness ==
    /\ WellFormedCall
    /\ self = WithNachschlag(Trill)
    /\ given.ql = 4 * self.quarterLength
    /\ rr.err = "none"
    /\ Len(rr.before) = 2
    /\ Len(rr.after) = 2

\* C19: a well-formed realize call on a source of duration 0 raises
\* ZeroDuration and returns nothing, whatever the kind of the ornament.
C19_ZeroDuration ==
    (WellFormedCall /\ self.cls # "Schleifer" /\ given.ql = 0) =>
        /\ rr.err = "ZeroDuration"
        /\ rr.before = <<>> /\ rr.remainder = <<>> /\ rr.after = <<>>

\* the ornament's size is None or ''
SizeUnset(e) == e.size.kind \in {"none", "empty"}

\* C20: realize on a mordent, trill, turn or appoggiatura whose size is None
\* or '' (direction set, pitched source long enough) raises MissingSize.
C20_MissingSize ==
    (/\ pc = "realized"
     /\ self.cls \in MordentClasses \cup TrillClasses \cup TurnClasses
                     \cup AppoggiaturaClasses
     /\ SizeUnset(self)
     /\ given.pitched
     /\ self.cls \in MordentClasses \cup AppoggiaturaClasses =>
            self.direction \in {"up", "down"}
     /\ given.ql > 0
     /\ given.ql >= MinimumDuration(self))
    => rr.err = "MissingSize"

\* C21: realize of a mordent, trill, turn or appoggiatura with direction and
\* size set, on an object without transpose whose duration is long enough,
\* raises TypeError and returns no notes.
C21_UnpitchedTypeError ==
    (/\ pc = "realized"
     /\ ~given.pitched
     /\ self.cls \in MordentClasses \cup TrillClasses \cup TurnClasses
                     \cup AppoggiaturaClasses
     /\ self.cls \in MordentClasses \cup AppoggiaturaClasses =>
            self.direction \in {"up", "down"}
     /\ HasReverse(self.size)
     /\ given.ql > 0
     /\ given.ql >= MinimumDuration(self))
    => /\ rr.err = "TypeError"
       /\ rr.before = <<>> /\ rr.remainder = <<>> /\ rr.after = <<>>

\* a value the placement setter is to take: None, or 'above' or 'below' in
\* any case of letters
IsPlacementValue(v) ==
    \/ v.type = "NoneType"
    \/ v.type = "str" /\ Lower(v.text) \in {Above, Below}

\* C22: the placement a TrillExtension or a TremoloSpanner stores is always
\* 'above', 'below' or None, and an assignment of any other value raises an
\* error and leaves the stored placement as it was.
C22_PlacementValidated ==
    /\ self.placement \in {StrValue(Above), StrValue(Below), NoneValue}
    /\ (assigned.attr = "placement" /\ ~IsPlacementValue(assigned.value)) =>
          /\ assigned.err # "none"
          /\ self.placement = assigned.before.placement

\* C23: after an assignment of 'above', 'below' (in any case of letters) or
\* None to the placement of a TrillExtension, the placement read is that
\* value, lower-cased.
C23_PlacementRead ==
    (/\ self.cls = "TrillExtension"
     /\ assigned.attr = "placement"
     /\ IsPlacementValue(assigned.value))
    => /\ assigned.err = "none"
       /\ self.placement =
             IF assigned.value.type = "NoneType" THEN NoneValue
             ELSE StrValue(Lower(assigned.value.text))

\* the value of a measure number with a numeric part
NumberOf(measureNumber) == DigitsValue(SplitSuffix(measureNumber).number)
SuffixOf(measureNumber) == SplitSuffix(measureNumber).suffix
HasNumber(measureNumber) == SplitSuffix(measureNumber).number # <<>>

\* C24: on measure numbers with a numeric part, measureNumberComesBefore is
\* never True both ways round, is False when the two have the same numeric
\* value and the same suffix, and is otherwise the comparison of the numeric
\* values or, when these are equal, of the suffixes as strings.
C24_StrictOrder ==
    (HasNumber(mNum1) /\ HasNumber(mNum2)) =>
        /\ ~(comesBefore.fwd = "True" /\ comesBefore.bwd = "True")
        /\ comesBefore.fwd # "none" =>
              comesBefore.fwd =
                 IF NumberOf(mNum1) # NumberOf(mNum2)
                 THEN (IF NumberOf(mNum1) < NumberOf(mNum2) THEN "True" ELSE "False")
                 ELSE (IF StrLess(SuffixOf(mNum1), SuffixOf(mNum2))
                       THEN "True" ELSE "False")

\* C25: a mordent's realize tests direction, size, zero duration and short
\* duration in this order: without a direction it raises MissingDirection
\* whatever the size and the duration; with a direction and size '' it
\* raises MissingSize whatever the duration; with both set, ZeroDuration on
\* d = 0 and InsufficientDuration on 0 < d < 2q.
C25_CheckOrder ==
    (pc = "realized" /\ self.cls \in MordentClasses) =>
        rr.err =
           IF self.direction \notin {"up", "down"} THEN "MissingDirection"
           ELSE IF self.size.kind = "empty" THEN "MissingSize"
           ELSE IF given.ql = 0 THEN "ZeroDuration"
           ELSE IF given.ql < 2 * self.quarterLength THEN "InsufficientDuration"
           ELSE rr.err

C25_Witness ==
    /\ pc = "realized"
    /\ self = WithSize(GeneralMordent, EmptySize)
    /\ given.ql = 0
    /\ rr.err = "MissingDirection"

\* some expression of the note is a Tremolo
CarriesTremolo(n) == \E j \in DOMAIN n.expressions : n.expressions[j].cls = "Tremolo"

\* C26: when the source note has the Tremolo attached that is realized on
\* it, none of the slices returned carries a Tremolo in its expressions.
C26_TremoloStripped ==
    (/\ pc = "realized"
     /\ self.cls = "Tremolo"
     /\ \E j \in DOMAIN given.expressions : given.expressions[j] = self)
    => \A i \in DOMAIN rr.before : ~CarriesTremolo(rr.before[i])

\* the iterations the running call has made
Iterations == LoopBusterStart - loopBuster

\* no realize of the expression returns None as the main note
NonConsuming(e) == e.cls \notin TrillClasses \cup {"Tremolo"}

\* the call was given more than 100 expressions, the first 100 non-consuming
LongCall ==
    /\ Len(callArg.expressions) > LoopBusterStart
    /\ \A i \in 1..LoopBusterStart : NonConsuming(callArg.expressions[i])

\* C27: on a note with more than 100 expressions of which the first 100 do
\* not consume it, the loop ends only when the counter has run from 100 down
\* to 0, that is after exactly 100 iterations; an exception comes only from a
\* realize call that raised; the list returned is preExpand + [current] +
\* postExpand, and current carries the expressions from the 101st on.
C27_CounterExpires ==
    LongCall =>
        /\ pc = "loop" => loopBuster > 0
        /\ pc \in {"ret", "done"} =>
              /\ Iterations = LoopBusterStart
              /\ Len(srcObject) = 1
              /\ srcObject[1].expressions =
                    SubSeq(callArg.expressions, LoopBusterStart + 1,
                           Len(callArg.expressions))
        /\ pc = "raised" => calls[Len(calls)].res.err # "none"
        /\ pc = "done" =>
              /\ retList = preExpandList \o srcObject \o postExpandList
              /\ retList = Befores(calls) \o srcObject \o Afters(calls)

C27_Witness ==
    /\ pc = "done"
    /\ Len(callArg.expressions) = LoopBusterStart + 2
    /\ callArg.expressions[1] = Mordent
    /\ Len(retList) = 3
    /\ retList[3].expressions = <<Schleifer, Turn>>
    /\ loopBuster = 0

\* what holds throughout a call on a note with n expressions: at most
\* min(n, 100) iterations were made; the working note, if there is one,
\* carries the expressions not yet examined, one fewer after every iteration;
\* the ornaments realized are the realizable ones among the expressions
\* examined, each once and in order; a loop that ended before the counter ran
\* out and left a main note left it without expressions.
C28_Progress ==
    (pc \in {"loop", "ret", "done"} /\ Expanding) =>
        LET n == Len(callArg.expressions)
        IN /\ Iterations <= n
           /\ Iterations <= LoopBusterStart
           /\ srcObject # <<>> =>
                 srcObject[1].expressions = SubSeq(callArg.expressions, Iterations + 1, n)
           /\ [j \in DOMAIN calls |-> calls[j].self] =
                 SelectSeq(SubSeq(callArg.expressions, 1, Iterations), HasRealize)
           /\ (pc \in {"ret", "done"} /\ loopBuster > 0 /\ srcObject # <<>>) =>
                 srcObject[1].expressions = <<>>

\* C28: realizeOrnaments terminates - a call in its loop reaches its return
\* or raises - and C28_Progress holds throughout.
C28_Terminates ==
    /\ []C28_Progress
    /\ (pc = "loop") ~> (pc \in {"done", "raised"})

C28_Witness ==
    /\ pc = "done"
    /\ callArg.expressions = <<Schleifer, Mordent>>
    /\ Len(calls) = 2
    /\ loopBuster = LoopBusterStart - 2
    /\ Len(retList) = 3
    /\ retList[3].expressions = <<>>

\* some expression of the note the call was given has a realize
HasRealizable == \E i \in DOMAIN callArg.expressions : HasRealize(callArg.expressions[i])

\* C29, as claimed: every note of the list returned for a note of strictly
\* positive duration with at least one realizable ornament has a strictly
\* positive duration, the main note included.
C29_AllPositive ==
    (pc = "done" /\ Expanding /\ HasRealizable /\ callArg.ql > 0) =>
        \A i \in DOMAIN retList : retList[i].ql > 0

\* C29, amended: no note of the list returned has a negative duration; the
\* notes a realize call made from a source of strictly positive duration are
\* of strictly positive duration; the main note, when there is one, has what
\* the ornaments left of the source's duration, which is 0 when they took
\* all of it (a mordent on d = 2q, a turn on d = 4q).
C29_MainMayBeZero ==
    (pc = "done" /\ Expanding /\ HasRealizable /\ callArg.ql > 0) =>
        /\ \A i \in DOMAIN retList : retList[i].ql >= 0
        /\ \A j \in DOMAIN calls :
              calls[j].res.src.ql > 0 =>
                 \A i \in DOMAIN (calls[j].res.before \o calls[j].res.after) :
                    (calls[j].res.before \o calls[j].res.after)[i].ql > 0
        /\ srcObject # <<>> =>
              srcObject[1].ql = callArg.ql - SumQL(Befores(calls) \o Afters(calls))
        /\ (callArg.expressions = <<Mordent>>
            /\ callArg.ql = 2 * Mordent.quarterLength) => retList[3].ql = 0
        /\ (callArg.expressions = <<Turn>>
            /\ callArg.ql = 4 * Turn.quarterLength) => retList[1].ql = 0

C29_Witness ==
    /\ pc = "done"
    /\ callArg.expressions = <<Turn>>
    /\ callArg.ql = 4 * Turn.quarterLength
    /\ Len(retList) = 5
    /\ retList[1].ql = 0
    /\ retList[2].ql > 0

\* The lowestLine of the clef of class cls at octaveChange 0: the octave
\* variants of the treble and the bass clef are measured against TrebleClef
\* and BassClef, every other class against itself as constructed.
BaseLowestLine(cls) ==
    CASE cls \in {"Treble8vbClef", "Treble8vaClef"} -> NewClef("TrebleClef").lowestLine
      [] cls \in {"Bass8vbClef", "Bass8vaClef"} -> NewClef("BassClef").lowestLine
      [] OTHER -> NewClef(cls).lowestLine

\* C30: a PitchClef, as constructed and after any sequence of octaveChange
\* assignments, has the lowestLine of the same clef at octaveChange 0 plus 7
\* for every octave of its octaveChange; the 8va and 8vb clefs as constructed
\* lie 7 * octaveChange from TrebleClef's 31 or BassClef's 19.
C30_LowestLineFollowsOctave ==
    pc = "attrs" /\ "lowestLine" \in DOMAIN self /\ "octaveChange" \in DOMAIN self
        => self.lowestLine = BaseLowestLine(self.cls) + 7 * self.octaveChange

====
